---------------------------- MODULE Spec2Model ----------------------------
(***************************************************************************)
(* A model of InstorLabel.py: the column resolver (normalize_column_name,  *)
(* find_column), parse_line_location, generate_qr_code and the control     *)
(* flow of generate_sticker_labels.                                        *)
(*                                                                         *)
(* A Python str is modelled as a sequence of one-character strings, so     *)
(* that normalisation, substring tests, splitting and concatenation are    *)
(* computed character by character as the code computes them.              *)
(***************************************************************************)
EXTENDS Integers, Sequences, FiniteSets, TLC

VARIABLES
    columns,          \* df.columns: the table's headers, in column order
    total_rows,       \* len(df)
    df_index,         \* df.index: the label of each row, in row order
    df_rows,          \* the rows of df that iterrows() has yielded so far
    pc,               \* position in generate_sticker_labels
    found_columns,    \* semantic field -> header, None when the key is absent
    reported,         \* the missing_required list handed to st.error, or None
    tmp_files,        \* temporary files of this call that exist on disk
    today_date,       \* the date string computed at line 162
    all_elements,     \* the flowables accumulated for doc.build
    qr_calls,         \* per row: the string given to generate_qr_code, and whether it raised
    result,           \* the value returned, once returned
    parse_in,         \* argument of a direct parse_line_location call
    parse_out         \* its return value, <<>> before the call returns

vars == <<columns, total_rows, df_index, df_rows, pc, found_columns, reported,
          tmp_files, today_date, all_elements, qr_calls, result,
          parse_in, parse_out>>

(***************************************************************************)
(* Bounds of the model.                                                    *)
(***************************************************************************)
MaxRows == 2        \* rows of a table in Spec
MaxCols == 3        \* headers of a table in SpecResolve
MaxLocLen == 4      \* length of a location string in SpecParse

(***************************************************************************)
(* Python values.                                                          *)
(***************************************************************************)
None == <<"None">>          \* Python's None (no str has a 4-character element)
NaN == <<"NaN">>            \* a null cell (pandas NaN / None)

UpperCase == <<"A","B","C","D","E","F","G","H","I","J","K","L","M",
               "N","O","P","Q","R","S","T","U","V","W","X","Y","Z">>
LowerCase == <<"a","b","c","d","e","f","g","h","i","j","k","l","m",
               "n","o","p","q","r","s","t","u","v","w","x","y","z">>
Digits == {"0","1","2","3","4","5","6","7","8","9"}

\* [a-zA-Z0-9]
IsAlnum(c) ==
    \/ \E i \in 1..26 : UpperCase[i] = c \/ LowerCase[i] = c
    \/ c \in Digits

\* str.lower() on one character
Lower(c) ==
    IF \E i \in 1..26 : UpperCase[i] = c
    THEN LowerCase[CHOOSE i \in 1..26 : UpperCase[i] = c]
    ELSE c

\* Python's  a in b  on two strs: a occurs in b as a contiguous substring
IsSubstring(a, b) ==
    \E i \in 0..(Len(b) - Len(a)) : SubSeq(b, i + 1, i + Len(a)) = a

\* Python's str(v) for a cell: a str is itself, a null cell prints as "nan"
Str(v) == IF v = NaN THEN <<"n","a","n">> ELSE v

\* pd.notna(v)
notna(v) == v # NaN

\* Python truthiness of a str or None
Truthy(v) == v # None /\ v # <<>>

\* re.sub(r'[^a-zA-Z0-9]', '', str(col_name)).lower()
normalize_column_name(col_name) ==
    LET kept == SelectSeq(col_name, IsAlnum)
    IN  [i \in 1..Len(kept) |-> Lower(kept[i])]

(***************************************************************************)
(* The schema (lines 93-109).                                              *)
(***************************************************************************)
Keys == <<"ASSLY", "part_no", "description", "Part_per_veh", "Type", "line_location">>

KeySet == {Keys[i] : i \in 1..Len(Keys)}

column_mappings ==
    [k \in KeySet |->
       CASE k = "ASSLY" ->
              <<<<"a","s","s","l","y">>, <<"A","S","S","Y"," ","N","A","M","E">>, <<"A","s","s","y"," ","N","a","m","e">>, <<"a","s","s","y"," ","n","a","m","e">>, <<"a","s","s","y","n","a","m","e">>,
                <<"a","s","s","y","_","n","a","m","e">>, <<"A","s","s","y","_","n","a","m","e">>, <<"A","s","s","e","m","b","l","y">>, <<"A","s","s","e","m","b","l","y"," ","N","a","m","e">>,
                <<"A","S","S","E","M","B","L","Y">>, <<"A","s","s","e","m","b","l","y","_","N","a","m","e">>>>
         [] k = "part_no" ->
              <<<<"P","A","R","T","N","O">>, <<"P","A","R","T","N","O",".">>, <<"P","a","r","t"," ","N","o">>, <<"P","a","r","t"," ","N","u","m","b","e","r">>, <<"P","a","r","t","N","o">>,
                <<"p","a","r","t","n","u","m","b","e","r">>, <<"p","a","r","t"," ","n","o">>, <<"p","a","r","t","n","u","m">>, <<"P","A","R","T">>, <<"p","a","r","t">>,
                <<"P","r","o","d","u","c","t"," ","C","o","d","e">>, <<"I","t","e","m"," ","N","u","m","b","e","r">>, <<"I","t","e","m"," ","I","D">>, <<"I","t","e","m"," ","N","o">>,
                <<"i","t","e","m">>, <<"I","t","e","m">>>>
         [] k = "description" ->
              <<<<"D","E","S","C","R","I","P","T","I","O","N">>, <<"D","e","s","c","r","i","p","t","i","o","n">>, <<"D","e","s","c">>, <<"P","a","r","t"," ","D","e","s","c","r","i","p","t","i","o","n">>,
                <<"I","t","e","m","D","e","s","c","r","i","p","t","i","o","n">>, <<"i","t","e","m"," ","d","e","s","c","r","i","p","t","i","o","n">>, <<"P","r","o","d","u","c","t"," ","D","e","s","c","r","i","p","t","i","o","n">>,
                <<"I","t","e","m"," ","D","e","s","c","r","i","p","t","i","o","n">>, <<"N","A","M","E">>, <<"I","t","e","m"," ","N","a","m","e">>, <<"P","r","o","d","u","c","t"," ","N","a","m","e">>>>
         [] k = "Part_per_veh" ->
              <<<<"Q","Y","T">>, <<"Q","T","Y"," ","/"," ","V","E","H">>, <<"Q","t","y","/","V","e","h">>, <<"Q","t","y"," ","B","i","n">>, <<"Q","u","a","n","t","i","t","y"," ","p","e","r"," ","B","i","n">>,
                <<"q","t","y"," ","b","i","n">>, <<"q","t","y","b","i","n">>, <<"q","u","a","n","t","i","t","y"," ","b","i","n">>, <<"B","I","N"," ","Q","T","Y">>, <<"B","I","N","Q","T","Y">>,
                <<"Q","T","Y","_","B","I","N">>, <<"Q","T","Y","_","P","E","R","_","B","I","N">>, <<"B","i","n"," ","Q","u","a","n","t","i","t","y">>, <<"B","I","N">>>>
         [] k = "Type" ->
              <<<<"T","Y","P","E">>, <<"t","y","p","e">>, <<"T","y","p","e">>, <<"t","y","P","e">>, <<"T","y","p","e"," ","n","a","m","e">>>>
         [] k = "line_location" ->
              <<<<"L","I","N","E"," ","L","O","C","A","T","I","O","N">>, <<"L","i","n","e"," ","L","o","c","a","t","i","o","n">>, <<"l","i","n","e"," ","l","o","c","a","t","i","o","n">>,
                <<"L","I","N","E","L","O","C","A","T","I","O","N">>, <<"l","i","n","e","l","o","c","a","t","i","o","n">>, <<"L","i","n","e","_","L","o","c","a","t","i","o","n">>,
                <<"l","i","n","e","_","l","o","c","a","t","i","o","n">>, <<"L","I","N","E","_","L","O","C","A","T","I","O","N">>, <<"L","i","n","e","L","o","c","a","t","i","o","n">>,
                <<"l","i","n","e","_","l","o","c">>, <<"l","i","n","e","l","o","c">>, <<"L","I","N","E","L","O","C">>, <<"L","i","n","e"," ","L","o","c">>>>]

required_columns == <<"ASSLY", "part_no", "description">>

(***************************************************************************)
(* find_column (lines 30-50).                                              *)
(***************************************************************************)
\* d[k] = v on an insertion-ordered dict, kept as a sequence of entries:
\* an existing key keeps its position and takes the new value
DictPut(d, k, v) ==
    IF \E i \in 1..Len(d) : d[i].key = k
    THEN [i \in 1..Len(d) |-> IF d[i].key = k THEN [key |-> k, val |-> v] ELSE d[i]]
    ELSE Append(d, [key |-> k, val |-> v])

RECURSIVE DictFrom(_, _)
DictFrom(cols, d) ==
    IF cols = <<>> THEN d
    ELSE DictFrom(Tail(cols), DictPut(d, normalize_column_name(Head(cols)), Head(cols)))

\* {normalize_column_name(col): col for col in df.columns}
normalized_df_columns(cols) == DictFrom(cols, <<>>)

\* [normalize_column_name(name) for name in possible_names]
normalized_possible_names(possible_names) ==
    [i \in 1..Len(possible_names) |-> normalize_column_name(possible_names[i])]

Min(S) == CHOOSE m \in S : \A n \in S : m <= n

\* lines 35-37: the first alias, in list order, that is a key of the dict
exact_match(d, names) ==
    LET hits == {i \in 1..Len(names) : \E j \in 1..Len(d) : d[j].key = names[i]}
    IN  IF hits = {} THEN None
        ELSE LET n == names[Min(hits)]
             IN  d[CHOOSE j \in 1..Len(d) : d[j].key = n].val

\* the substring stage with the two loops exchanged: dict entries outermost
partial_match_entries_first(d, names) ==
    LET ok(i, j) == IsSubstring(names[i], d[j].key) \/ IsSubstring(d[j].key, names[i])
        hits == {j \in 1..Len(d) : \E i \in 1..Len(names) : ok(i, j)}
    IN  IF hits = {} THEN None ELSE d[Min(hits)].val

\* lines 40-43: the first (alias, dict entry) pair, aliases outermost, with
\* one normalised name a substring of the other
partial_match(d, names) ==
    LET ok(i, j) == IsSubstring(names[i], d[j].key) \/ IsSubstring(d[j].key, names[i])
        hits == {i \in 1..Len(names) : \E j \in 1..Len(d) : ok(i, j)}
    IN  IF hits = {} THEN None
        ELSE LET i == Min(hits)
             IN  d[Min({j \in 1..Len(d) : ok(i, j)})].val

\* lines 46-48: the first dict entry whose key has the line-location keywords
keyword_match(d) ==
    LET ok(j) == \/ IsSubstring(<<"l","i","n","e">>, d[j].key) /\ IsSubstring(<<"l","o","c","a","t","i","o","n">>, d[j].key)
                 \/ IsSubstring(<<"l","i","n","e","l","o","c">>, d[j].key)
        hits == {j \in 1..Len(d) : ok(j)}
    IN  IF hits = {} THEN None ELSE d[Min(hits)].val

\* find_column with the substring stage consulted before the exact stage
find_column_partial_first(cols, possible_names) ==
    LET d == normalized_df_columns(cols)
        names == normalized_possible_names(possible_names)
    IN  IF partial_match(d, names) # None THEN partial_match(d, names)
        ELSE IF exact_match(d, names) # None THEN exact_match(d, names)
        ELSE keyword_match(d)

\* exact match, then substring match, then the keyword heuristic
find_column(cols, possible_names) ==
    LET d == normalized_df_columns(cols)
        names == normalized_possible_names(possible_names)
    IN  IF exact_match(d, names) # None THEN exact_match(d, names)
        ELSE IF partial_match(d, names) # None THEN partial_match(d, names)
        ELSE keyword_match(d)

(***************************************************************************)
(* generate_qr_code (lines 52-77).  Whether the qrcode / PIL calls raise   *)
(* is decided outside the program; `raised` is that outcome.  The image    *)
(* carries the string it encodes.                                          *)
(***************************************************************************)
Image(data_string) == [kind |-> "Image", text |-> data_string]

Paragraph(text) == [kind |-> "Paragraph", text |-> text]

PlainStr(text) == [kind |-> "str", text |-> text]

PageBreak == [kind |-> "PageBreak"]

\* None, where the code expects a flowable
NoImage == [kind |-> "None", text |-> <<>>]

generate_qr_code(data_string, raised) ==
    IF raised THEN NoImage ELSE Image(data_string)

(***************************************************************************)
(* parse_line_location (lines 79-86).                                      *)
(***************************************************************************)
\* str.split("_")
RECURSIVE Split(_, _)
Split(s, cur) ==
    IF s = <<>> THEN <<cur>>
    ELSE IF Head(s) = "_" THEN <<cur>> \o Split(Tail(s), <<>>)
    ELSE Split(Tail(s), Append(cur, Head(s)))

\* [""] * n, empty for n <= 0
Repeat(n) == [i \in 1..(IF n > 0 THEN n ELSE 0) |-> <<>>]

\* seq[:n] for n >= 0
Take(seq, n) == SubSeq(seq, 1, IF Len(seq) < n THEN Len(seq) ELSE n)

\* parse_line_location without the final [:4]
parse_line_location_no_truncate(location_string) ==
    IF location_string = None \/ location_string = <<>> \/ location_string = NaN
    THEN <<<<>>, <<>>, <<>>, <<>>>>
    ELSE LET parts == Split(Str(location_string), <<>>)
         IN  parts \o Repeat(4 - Len(parts))

parse_line_location(location_string) ==
    IF location_string = None \/ location_string = <<>> \/ location_string = NaN
    THEN <<<<>>, <<>>, <<>>, <<>>>>
    ELSE LET parts == Split(Str(location_string), <<>>)
             res == Take(parts, 4) \o Repeat(4 - Len(parts))
         IN  Take(res, 4)

(***************************************************************************)
(* One iteration of the row loop (lines 168-306).                          *)
(***************************************************************************)
InFound(fc, k) == fc[k] # None

\* row[col]: the cell of the row under the header col
Cell(cols, row, col) == row[CHOOSE i \in 1..Len(cols) : cols[i] = col]

\* lines 174-176
RequiredText(cols, fc, row, k) ==
    IF InFound(fc, k) THEN Str(Cell(cols, row, fc[k])) ELSE <<"N","/","A">>

\* lines 177-179
\* the optional fields without the pd.notna test
OptionalText_no_null_check(cols, fc, row, k) ==
    IF InFound(fc, k) THEN Str(Cell(cols, row, fc[k])) ELSE <<>>

OptionalText(cols, fc, row, k) ==
    IF InFound(fc, k) /\ notna(Cell(cols, row, fc[k]))
    THEN Str(Cell(cols, row, fc[k]))
    ELSE <<>>

\* lines 183-190
qr_data(ASSLY, part_no, desc, Part_per_veh, Type, line_location_raw, date) ==
    <<"A","S","S","L","Y",":"," ">> \o ASSLY \o <<"\n","P","a","r","t"," ","N","o",":"," ">> \o part_no
        \o <<"\n","D","e","s","c","r","i","p","t","i","o","n",":"," ">> \o desc \o <<"\n">>
        \o (IF Part_per_veh # <<>> THEN <<"Q","T","Y","/","B","I","N",":"," ">> \o Part_per_veh \o <<"\n">> ELSE <<>>)
        \o (IF Type # <<>> THEN <<"T","y","p","e",":"," ">> \o Type \o <<"\n">> ELSE <<>>)
        \o (IF line_location_raw # <<>>
            THEN <<"L","i","n","e"," ","L","o","c","a","t","i","o","n",":"," ">> \o line_location_raw \o <<"\n">> ELSE <<>>)
        \o <<"D","a","t","e",":"," ">> \o date

\* lines 192-196
\* the code cell without the placeholder branch
qr_cell_no_fallback(qr_image) == qr_image

qr_cell(qr_image) ==
    IF qr_image.kind # "None" THEN qr_image ELSE Paragraph(<<"Q","R">>)

\* lines 206-209
location_box(seg) == IF seg # <<>> THEN Paragraph(seg) ELSE PlainStr(<<>>)

\* lines 212-220
unified_table_data(ASSLY, part_no, desc, Part_per_veh, Type, date, boxes, qrc) ==
    << <<PlainStr(<<"A","S","S","L","Y">>), PlainStr(ASSLY)>>,
       <<PlainStr(<<"P","A","R","T"," ","N","O">>), PlainStr(part_no)>>,
       <<PlainStr(<<"P","A","R","T"," ","D","E","S","C">>), PlainStr(desc)>>,
       <<PlainStr(<<"P","A","R","T"," ","P","E","R"," ","V","E","H">>), Paragraph(Part_per_veh), qrc>>,
       <<PlainStr(<<"T","Y","P","E">>), Paragraph(Type), PlainStr(<<>>)>>,
       <<PlainStr(<<"D","A","T","E">>), Paragraph(date), PlainStr(<<>>)>>,
       <<PlainStr(<<"L","I","N","E"," ","L","O","C","A","T","I","O","N">>), location_box(boxes[1]), location_box(boxes[2]),
         location_box(boxes[3]), location_box(boxes[4])>> >>

\* lines 223-231: one entry per column
col_widths_top == <<"content_width*0.3", "content_width*0.7">>

col_widths_middle == <<"content_width*0.3", "content_width*0.3", "content_width*0.4">>

col_widths_bottom ==
    <<"content_width*line_loc_header_width", "content_width*line_loc_box1_width",
      "content_width*line_loc_box2_width", "content_width*line_loc_box3_width",
      "content_width*line_loc_box4_width">>

\* lines 199-203 and 233, in hundredths of a centimetre
ASSLY_row_height == 70
part_row_height == 70
desc_row_height == 70
bottom_row_height == 60
location_row_height == 60

row_heights ==
    <<ASSLY_row_height, part_row_height, desc_row_height, bottom_row_height,
      bottom_row_height, bottom_row_height, location_row_height>>

Table(data, colWidths, rowHeights) ==
    [kind |-> "Table", data |-> data, colWidths |-> colWidths, rowHeights |-> rowHeights]

\* lines 236-238 and 297-299: the three tables of one sticker
\* the sticker with the location row folded into the attributes table
elements_two_tables(utd) ==
    << Table(SubSeq(utd, 1, 3), col_widths_top, SubSeq(row_heights, 1, 3)),
       Table(SubSeq(utd, 4, 7), col_widths_middle, SubSeq(row_heights, 4, 7)) >>

elements(utd) ==
    << Table(SubSeq(utd, 1, 3), col_widths_top, SubSeq(row_heights, 1, 3)),
       Table(SubSeq(utd, 4, 6), col_widths_middle, SubSeq(row_heights, 4, 6)),
       Table(<<utd[7]>>, col_widths_bottom, <<row_heights[7]>>) >>

\* lines 174-190 for one row: the string handed to generate_qr_code
row_qr_data(cols, fc, row, date) ==
    qr_data(RequiredText(cols, fc, row, "ASSLY"),
            RequiredText(cols, fc, row, "part_no"),
            RequiredText(cols, fc, row, "description"),
            OptionalText(cols, fc, row, "Part_per_veh"),
            OptionalText(cols, fc, row, "Type"),
            OptionalText(cols, fc, row, "line_location"),
            date)

\* lines 171-302 for one row: the flowables of its sticker
sticker(cols, fc, row, date, raised) ==
    LET ASSLY == RequiredText(cols, fc, row, "ASSLY")
        part_no == RequiredText(cols, fc, row, "part_no")
        desc == RequiredText(cols, fc, row, "description")
        Part_per_veh == OptionalText(cols, fc, row, "Part_per_veh")
        Type == OptionalText(cols, fc, row, "Type")
        line_location_raw == OptionalText(cols, fc, row, "line_location")
        location_boxes == parse_line_location(line_location_raw)
        qrc == qr_cell(generate_qr_code(row_qr_data(cols, fc, row, date), raised))
    IN  elements(unified_table_data(ASSLY, part_no, desc, Part_per_veh, Type,
                                    date, location_boxes, qrc))

\* lines 304-306
needs_page_break(index, n) == index < n - 1

(***************************************************************************)
(* doc.build (line 309).  The page template has one frame, as high as the  *)
(* page less the two margins of lines 146-147 and the frame's padding.     *)
(* Flowables are placed top to bottom; one that does not fit in what is    *)
(* left of the frame starts a new page, and a PageBreak closes the page.   *)
(* Lengths are in hundredths of a centimetre.                              *)
(***************************************************************************)
STICKER_HEIGHT == 1500
CONTENT_BOX_HEIGHT == 500
topMargin == 20
bottomMargin == STICKER_HEIGHT - CONTENT_BOX_HEIGHT - 20
FramePadding == 22       \* 6 points, at the top and at the bottom of the frame

FrameHeight == STICKER_HEIGHT - topMargin - bottomMargin - 2 * FramePadding

RECURSIVE SumSeq(_)
SumSeq(s) == IF s = <<>> THEN 0 ELSE Head(s) + SumSeq(Tail(s))

RECURSIVE Pages(_, _, _)
Pages(flowables, cur, used) ==
    IF flowables = <<>> THEN (IF cur = <<>> THEN <<>> ELSE <<cur>>)
    ELSE LET f == Head(flowables)
         IN  IF f.kind = "PageBreak"
             THEN <<cur>> \o Pages(Tail(flowables), <<>>, 0)
             ELSE LET h == SumSeq(f.rowHeights)
                  IN  IF cur # <<>> /\ used + h > FrameHeight
                      THEN <<cur>> \o Pages(Tail(flowables), <<f>>, h)
                      ELSE Pages(Tail(flowables), Append(cur, f), used + h)

build(flowables) == Pages(flowables, <<>>, 0)

\* return None, None
NoneNone == [returned |-> TRUE, document |-> FALSE]

\* before the return
NotReturned == [returned |-> FALSE, document |-> FALSE]

(***************************************************************************)
(* Inputs.                                                                 *)
(***************************************************************************)
\* header rows of the tables of Spec
Tables ==
    { <<<<"A","s","s","e","m","b","l","y">>, <<"P","a","r","t"," ","N","o">>, <<"D","e","s","c","r","i","p","t","i","o","n">>, <<"Q","t","y","/","V","e","h">>, <<"T","y","p","e">>, <<"L","i","n","e"," ","L","o","c","a","t","i","o","n">>>>,
      <<<<"A","s","s","y"," ","N","a","m","e">>, <<"P","A","R","T","N","O">>, <<"D","e","s","c">>>>,
      <<<<"P","a","r","t"," ","N","o">>, <<"D","e","s","c","r","i","p","t","i","o","n">>, <<"T","y","p","e">>>>,
      <<<<"L","o","c","a","t","i","o","n"," ","L","i","n","e">>, <<"P","a","r","t"," ","N","o">>, <<"D","e","s","c","r","i","p","t","i","o","n">>>>,
      <<<<"T","y","p","e">>>> }

\* headers of the tables of SpecResolve
HeaderPool ==
    { <<"A","s","s","e","m","b","l","y">>, <<"P","a","r","t"," ","N","o">>, <<"P","A","R","T","N","O">>, <<"P","a","r","t">>, <<"D","e","s","c","r","i","p","t","i","o","n">>, <<"D","e","s","c">>,
      <<"L","o","c","a","t","i","o","n"," ","L","i","n","e">>, <<"T","y","p","e">>, <<"T","Y","P","E">>, <<"#">> }

IsDistinct(s) == \A i, j \in 1..Len(s) : i # j => s[i] # s[j]

HeaderLists ==
    {s \in UNION {[1..n -> HeaderPool] : n \in 1..MaxCols} : IsDistinct(s)}

\* rows, cell by column position; a table of fewer columns takes a prefix
RowPool ==
    { <<<<"A">>, <<"P">>, <<"x">>, <<"5">>, <<"y">>, <<"L","_","M","_","N","_","O","_","P">>>>,
      <<<<"A">>, <<"P">>, <<"x">>, NaN, NaN, NaN>>,
      <<<<"A">>, <<"P">>, <<"x","\n","T","y","p","e",":"," ","y">>, NaN, <<>>, <<>>>>,
      <<<<"A">>, <<"P">>, <<"x">>, NaN, <<"y">>, <<>>>>,
      <<NaN, <<"B">>, <<"x">>, <<"5">>, NaN, <<"A","_","B">>>> }

\* datetime.datetime.now().strftime("%d-%m-%Y")
Dates == {<<"0","4","-","1","1","-","2","0","2","6">>}

LocChars == {"A", "B", "_"}

\* arguments of a direct parse_line_location call
LocInputs ==
    UNION {[1..n -> LocChars] : n \in 0..MaxLocLen}
        \cup {<<"A","_","B","_","C","_","D","_","E">>, <<"L","_","M","_","N","_","O","_","P","_","Q">>, NaN, None}

\* the index read_csv / read_excel give a table of n rows whose rows have as
\* many fields as the header: the positions 0 .. n-1
RangeIndex(n) == [i \in 1..n |-> i - 1]

\* the indexes of a table of n rows: the RangeIndex and, for a CSV file whose
\* rows have one field more than the header (read_csv then takes the first
\* field of each row as its label), all labels 0, the positions counted
\* down, and the positions counted from 1
IndexLists(n) ==
    {RangeIndex(n), [i \in 1..n |-> 0], [i \in 1..n |-> n - i], [i \in 1..n |-> i]}

(***************************************************************************)
(* generate_sticker_labels (lines 88-322).                                 *)
(***************************************************************************)
AtEntry ==
    /\ df_rows = <<>>
    /\ pc = "resolve"
    /\ found_columns = [k \in KeySet |-> None]
    /\ reported = None
    /\ tmp_files = {}
    /\ today_date = None
    /\ all_elements = <<>>
    /\ qr_calls = <<>>
    /\ result = NotReturned

Init ==
    /\ columns \in Tables
    /\ total_rows \in 0..MaxRows
    /\ df_index \in IndexLists(total_rows)
    /\ AtEntry
    /\ parse_in = None
    /\ parse_out = <<>>

InitResolve ==
    /\ columns \in HeaderLists
    /\ total_rows = 1
    /\ df_index = RangeIndex(1)
    /\ AtEntry
    /\ parse_in = None
    /\ parse_out = <<>>

InitParse ==
    /\ columns \in {<<<<"T","y","p","e">>>>}
    /\ total_rows = 0
    /\ df_index = RangeIndex(0)
    /\ AtEntry
    /\ parse_in \in LocInputs
    /\ parse_out = <<>>

\* lines 111-116: a key enters found_columns when find_column's value is truthy
resolve(cols) ==
    [k \in KeySet |->
        LET found_col == find_column(cols, column_mappings[k])
        IN  IF Truthy(found_col) THEN found_col ELSE None]

FindColumns ==
    /\ pc = "resolve"
    /\ found_columns' = resolve(columns)
    /\ pc' = "check"
    /\ UNCHANGED <<columns, total_rows, df_index, df_rows, reported, tmp_files, today_date,
                   all_elements, qr_calls, result, parse_in, parse_out>>

\* the required-column check switched off
missing_required_none(fc) == <<>>

\* line 120

missing_required(fc) ==
    SelectSeq(required_columns, LAMBDA col : ~InFound(fc, col))

\* lines 122-124
MissingRequired ==
    /\ pc = "check"
    /\ missing_required(found_columns) # <<>>
    /\ reported' = missing_required(found_columns)
    /\ result' = NoneNone
    /\ pc' = "done"
    /\ UNCHANGED <<columns, total_rows, df_index, df_rows, found_columns, tmp_files, today_date,
                   all_elements, qr_calls, parse_in, parse_out>>

\* lines 126-166: the temporary file is created, then the document template,
\* the styles, the empty element list and the date
CreateDocument ==
    /\ pc = "check"
    /\ missing_required(found_columns) = <<>>
    /\ tmp_files' = {"output_pdf_path"}
    /\ all_elements' = <<>>
    /\ today_date' \in Dates
    /\ pc' = "loop"
    /\ UNCHANGED <<columns, total_rows, df_index, df_rows, found_columns, reported,
                   qr_calls, result, parse_in, parse_out>>

\* line 169: st.progress accepts a fraction from 0.0 to 1.0 and raises on
\* any other value
progress_accepts(index, n) == 0 <= index + 1 /\ index + 1 <= n

\* lines 168-306: one row of df.iterrows(); index is the row's label in
\* df.index
ProcessRow ==
    /\ pc = "loop"
    /\ Len(df_rows) < total_rows
    /\ progress_accepts(df_index[Len(df_rows) + 1], total_rows)
    /\ \E r \in RowPool, raised \in BOOLEAN :
         LET row == Take(r, Len(columns))
             index == df_index[Len(df_rows) + 1]
         IN  /\ df_rows' = Append(df_rows, row)
             /\ qr_calls' = Append(qr_calls,
                    [data |-> row_qr_data(columns, found_columns, row, today_date),
                     raised |-> raised])
             /\ all_elements' =
                    all_elements
                    \o sticker(columns, found_columns, row, today_date, raised)
                    \o (IF needs_page_break(index, total_rows)
                        THEN <<PageBreak>> ELSE <<>>)
    /\ UNCHANGED <<columns, total_rows, df_index, pc, found_columns, reported, tmp_files,
                   today_date, result, parse_in, parse_out>>

\* line 169 raising: the row's label puts the fraction outside 0.0 .. 1.0
ProgressRaises ==
    /\ pc = "loop"
    /\ Len(df_rows) < total_rows
    /\ ~progress_accepts(df_index[Len(df_rows) + 1], total_rows)
    /\ pc' = "except"
    /\ UNCHANGED <<columns, total_rows, df_index, df_rows, found_columns, reported, tmp_files,
                   today_date, all_elements, qr_calls, result, parse_in, parse_out>>

\* an exception other than generate_qr_code's own while a row is composed
\* (Paragraph or Table raising): control passes to line 320
RaiseInRow ==
    /\ pc = "loop"
    /\ Len(df_rows) < total_rows
    /\ pc' = "except"
    /\ UNCHANGED <<columns, total_rows, df_index, df_rows, found_columns, reported, tmp_files,
                   today_date, all_elements, qr_calls, result, parse_in, parse_out>>

\* line 309 raising
RaiseInBuild ==
    /\ pc = "loop"
    /\ Len(df_rows) = total_rows
    /\ pc' = "except"
    /\ UNCHANGED <<columns, total_rows, df_index, df_rows, found_columns, reported, tmp_files,
                   today_date, all_elements, qr_calls, result, parse_in, parse_out>>

\* lines 308-318: build, read the bytes back, unlink, return
returned(flowables, fc) ==
    [returned |-> TRUE, document |-> TRUE,
     pdf_bytes |-> build(flowables), found_columns |-> fc]

BuildAndReturn ==
    /\ pc = "loop"
    /\ Len(df_rows) = total_rows
    /\ tmp_files' = tmp_files \ {"output_pdf_path"}
    /\ result' = returned(all_elements, found_columns)
    /\ pc' = "done"
    /\ UNCHANGED <<columns, total_rows, df_index, df_rows, found_columns, reported,
                   today_date, all_elements, qr_calls, parse_in, parse_out>>

\* the handler returning what was composed so far
Except_returns_partial ==
    /\ pc = "except"
    /\ result' = returned(all_elements, found_columns)
    /\ pc' = "done"
    /\ UNCHANGED <<columns, total_rows, df_index, df_rows, found_columns, reported, tmp_files,
                   today_date, all_elements, qr_calls, parse_in, parse_out>>

\* lines 320-322
Except ==
    /\ pc = "except"
    /\ result' = NoneNone
    /\ pc' = "done"
    /\ UNCHANGED <<columns, total_rows, df_index, df_rows, found_columns, reported, tmp_files,
                   today_date, all_elements, qr_calls, parse_in, parse_out>>

Next ==
    \/ FindColumns
    \/ MissingRequired
    \/ CreateDocument
    \/ ProcessRow
    \/ ProgressRaises
    \/ RaiseInRow
    \/ RaiseInBuild
    \/ BuildAndReturn
    \/ Except

Spec == Init /\ [][Next]_vars

\* lines 91-166 alone, run on every table of HeaderLists: column resolution,
\* the required-column check and what directly follows it
NextResolve ==
    \/ FindColumns
    \/ MissingRequired
    \/ CreateDocument

SpecResolve == InitResolve /\ [][NextResolve]_vars

\* a direct call parse_line_location(parse_in)
ParseCall ==
    /\ parse_out = <<>>
    /\ parse_out' = parse_line_location(parse_in)
    /\ UNCHANGED <<columns, total_rows, df_index, df_rows, pc, found_columns, reported,
                   tmp_files, today_date, all_elements, qr_calls, result, parse_in>>

NextParse == ParseCall

SpecParse == InitParse /\ [][NextParse]_vars

(***************************************************************************)
(* Definitions used to state the claims.                                   *)
(***************************************************************************)
ColumnSet == {columns[i] : i \in 1..Len(columns)}

\* the normalised aliases of each field
NormAliases ==
    [k \in KeySet |->
        {normalize_column_name(column_mappings[k][i]) : i \in 1..Len(column_mappings[k])}]

\* the aliases of each field, normalised, in list order
NormAliasSeq ==
    [k \in KeySet |-> normalized_possible_names(column_mappings[k])]

\* the normalised form of each header of HeaderPool
PoolNorm == [h \in HeaderPool |-> normalize_column_name(h)]

\* the normalised form of a header
NormOf(h) == IF h \in HeaderPool THEN PoolNorm[h] ELSE normalize_column_name(h)

\* the aliases of field k, by position, that contain the normalised header h
\* or are contained in it
AliasHits(h, k) ==
    LET A == NormAliasSeq[k]
        n == normalize_column_name(h)
    IN  {i \in 1..Len(A) : IsSubstring(A[i], n) \/ IsSubstring(n, A[i])}

PoolAliasHits == [k \in KeySet |-> [h \in HeaderPool |-> AliasHits(h, k)]]

HitsOf(h, k) == IF h \in HeaderPool THEN PoolAliasHits[k][h] ELSE AliasHits(h, k)

\* the header h equals, after normalisation, an alias of field k
ExactFor(h, k) == NormOf(h) \in NormAliases[k]

\* the header h and an alias of field k contain one another after normalisation
SubstringFor(h, k) == HitsOf(h, k) # {}

\* field k has neither an exact nor a substring match among the headers
Unmatched(k) == \A h \in ColumnSet : ~ExactFor(h, k) /\ ~SubstringFor(h, k)

RequiredSet == {required_columns[i] : i \in 1..Len(required_columns)}

SeqToSet(s) == {s[i] : i \in 1..Len(s)}

IsNoneNone(r) == r.returned /\ ~r.document

\* the tables appended for the rows processed so far, three per row
StickerTables == SelectSeq(all_elements, LAMBDA f : f.kind = "Table")

\* the three tables of the i-th row processed
TablesOfRow(i) == SubSeq(StickerTables, 3 * i - 2, 3 * i)

(***************************************************************************)
(* C1.  A table in which some required field (ASSLY, part_no, description) *)
(* has no exact and no substring match makes generate_sticker_labels abort *)
(* before any page is built and return (None, None), and the reported      *)
(* missing list is exactly the set of required fields without such a       *)
(* match.                                                                  *)
(***************************************************************************)
C1_AbortsWithExactlyTheUnmatched ==
    ({k \in RequiredSet : Unmatched(k)} # {}) =>
        /\ pc \in {"resolve", "check", "done"}
        /\ all_elements = <<>>
        /\ pc = "done" =>
              /\ IsNoneNone(result)
              /\ reported # None
              /\ SeqToSet(reported) = {k \in RequiredSet : Unmatched(k)}

(***************************************************************************)
(* C4.  As claimed: every header H that equals an alias of a field after   *)
(* normalisation is the column find_column picks for that field.           *)
(***************************************************************************)
C4_EveryExactHeaderIsPicked ==
    pc = "check" =>
        \A k \in KeySet : \A H \in ColumnSet :
            ExactFor(H, k) => found_columns[k] = H

\* the first alias of field k, in list order, that some header equals after
\* normalisation
FirstExactAlias(k) ==
    LET A == NormAliasSeq[k]
        N == {NormOf(h) : h \in ColumnSet}
    IN  A[Min({i \in 1..Len(A) : A[i] \in N})]

\* the last header, in column order, whose normalised form is n
LastHeaderWith(n) ==
    LET js == {j \in 1..Len(columns) : NormOf(columns[j]) = n}
    IN  columns[CHOOSE j \in js : \A m \in js : m <= j]

(***************************************************************************)
(* C4, amended.  When some header equals an alias of a field after         *)
(* normalisation, the column picked for the field is an exact match, never *)
(* a header that matches only by substring or by the keyword heuristic: it *)
(* is the header whose normalised form is the first alias, in list order,  *)
(* with an exact match, and among several headers sharing that normalised  *)
(* form it is the last in column order.                                    *)
(***************************************************************************)
C4_ExactMatchWins ==
    pc = "check" =>
        \A k \in KeySet :
            (\E H \in ColumnSet : ExactFor(H, k)) =>
                /\ found_columns[k] \in ColumnSet
                /\ ExactFor(found_columns[k], k)
                /\ found_columns[k] = LastHeaderWith(FirstExactAlias(k))

\* resolution has run on a table where, for part_no, two headers share the
\* matching normalised form and a third matches by substring only
C4_Witness ==
    /\ pc = "check"
    /\ \E i, j, m \in 1..Len(columns) :
          /\ i < j
          /\ ExactFor(columns[i], "part_no")
          /\ NormOf(columns[i]) = NormOf(columns[j])
          /\ ~ExactFor(columns[m], "part_no") /\ SubstringFor(columns[m], "part_no")
          /\ m < i
          /\ found_columns["part_no"] = columns[j]

(***************************************************************************)
(* C5.  For every field other than line_location, a header that matches    *)
(* none of the field's aliases exactly or by substring is never chosen:    *)
(* when no header matches, the field stays absent from found_columns.      *)
(***************************************************************************)
C5_KeywordHeuristicOnlyForLineLocation ==
    pc = "check" =>
        \A k \in KeySet \ {"line_location"} :
            Unmatched(k) => ~InFound(found_columns, k)

\* the cell of a row under the column that found_columns gives field k
CellOf(row, k) == row[CHOOSE c \in 1..Len(columns) : columns[c] = found_columns[k]]

\* a table of r rows and c columns
IsRegion(t, r, c) ==
    /\ t.kind = "Table"
    /\ Len(t.data) = r
    /\ \A i \in 1..Len(t.data) : Len(t.data[i]) = c
    /\ Len(t.colWidths) = c
    /\ Len(t.rowHeights) = r

(***************************************************************************)
(* C2.  A run that returns a document for a table of N rows returns        *)
(* exactly N pages, the i-th made of the i-th row and of nothing else,     *)
(* and each page is three regions: identity 3 x 2, attributes 3 x 3 and    *)
(* location 1 x 5.                                                         *)
(***************************************************************************)
C2_OnePagePerRow ==
    result.document =>
        /\ \A k \in RequiredSet : InFound(found_columns, k)
        /\ Len(result.pdf_bytes) = total_rows
        /\ Len(df_rows) = total_rows
        /\ \A i \in 1..Len(result.pdf_bytes) :
              LET page == result.pdf_bytes[i]
              IN  /\ Len(page) = 3
                  /\ IsRegion(page[1], 3, 2)
                  /\ IsRegion(page[2], 3, 3)
                  /\ IsRegion(page[3], 1, 5)
                  /\ page[1].data[1][2].text = Str(CellOf(df_rows[i], "ASSLY"))
                  /\ page[1].data[2][2].text = Str(CellOf(df_rows[i], "part_no"))
                  /\ page[1].data[3][2].text = Str(CellOf(df_rows[i], "description"))

\* a document has been returned for a table of at least two rows
C2_Witness ==
    /\ result.document
    /\ total_rows >= 2
    /\ Len(result.pdf_bytes) = total_rows

(***************************************************************************)
(* C3.  parse_line_location returns exactly 4 segments for every argument: *)
(* the first four underscore-separated parts in order, padded with empty   *)
(* strings; all four are empty for an empty or null argument.              *)
(***************************************************************************)
UnderscoresOf(L) == {i \in 1..Len(L) : L[i] = "_"}

\* the k-th smallest element of S
Kth(S, k) == CHOOSE x \in S : Cardinality({y \in S : y < x}) = k - 1

\* the text between the (k-1)-th and the k-th underscore of L, empty when L
\* has fewer than k parts
Segment(L, k) ==
    LET U == UnderscoresOf(L)
        n == Cardinality(U)
    IN  IF k > n + 1 THEN <<>>
        ELSE SubSeq(L, IF k = 1 THEN 1 ELSE Kth(U, k - 1) + 1,
                       IF k = n + 1 THEN Len(L) ELSE Kth(U, k) - 1)

C3_AlwaysFourSegments ==
    parse_out # <<>> =>
        /\ Len(parse_out) = 4
        /\ \A k \in 1..4 :
              parse_out[k] =
                  IF parse_in = NaN \/ parse_in = None \/ parse_in = <<>>
                  THEN <<>> ELSE Segment(parse_in, k)
        /\ parse_in = <<"A","_","B">> => parse_out = <<<<"A">>, <<"B">>, <<>>, <<>>>>
        /\ parse_in = <<"A","_","B","_","C","_","D","_","E">> => parse_out = <<<<"A">>, <<"B">>, <<"C">>, <<"D">>>>
        /\ parse_in = <<>> => parse_out = <<<<>>, <<>>, <<>>, <<>>>>

\* a string of five parts has been parsed and cut to its first four
C3_Witness ==
    /\ parse_in = <<"A","_","B","_","C","_","D","_","E">>
    /\ parse_out # <<>>
    /\ parse_out[4] = <<"D">>

(***************************************************************************)
(* C6.  The mapping returned with a document maps the six fields only,     *)
(* each present value is a header of the table, the three required fields  *)
(* are present, and it is the mapping of the resolution step, under which   *)
(* every row was read.                                                     *)
\* what lines 111-116 give on each table of Tables
ResolvedTables == [t \in Tables |-> resolve(t)]

ResolveOf(cols) == IF cols \in Tables THEN ResolvedTables[cols] ELSE resolve(cols)

(***************************************************************************)
C6_ReturnedMappingIsTheOneUsed ==
    /\ pc # "resolve" => found_columns = ResolveOf(columns)
    /\ result.document =>
          LET m == result.found_columns
          IN  /\ DOMAIN m = KeySet
              /\ \A k \in KeySet : InFound(m, k) => m[k] \in ColumnSet
              /\ \A k \in RequiredSet : InFound(m, k)
              /\ m = found_columns
              /\ \A i \in 1..Len(df_rows) :
                    LET t == TablesOfRow(i)
                        at(k) == df_rows[i][CHOOSE c \in 1..Len(columns) : columns[c] = m[k]]
                        opt(k) == IF InFound(m, k) /\ at(k) # NaN THEN Str(at(k)) ELSE <<>>
                    IN  /\ t[1].data[1][2].text = Str(at("ASSLY"))
                        /\ t[1].data[2][2].text = Str(at("part_no"))
                        /\ t[1].data[3][2].text = Str(at("description"))
                        /\ t[2].data[1][2].text = opt("Part_per_veh")
                        /\ t[2].data[2][2].text = opt("Type")

\* a document is returned with a mapping that lacks an optional field
C6_Witness ==
    /\ result.document
    /\ Len(df_rows) >= 1
    /\ ~InFound(result.found_columns, "Type")
    /\ InFound(result.found_columns, "description")

RECURSIVE JoinLines(_)
JoinLines(lines) ==
    IF Len(lines) = 1 THEN lines[1]
    ELSE lines[1] \o <<"\n">> \o JoinLines(Tail(lines))

\* the optional field k has a line in the payload of the row
HasLine(row, k) ==
    /\ InFound(found_columns, k)
    /\ CellOf(row, k) # NaN
    /\ CellOf(row, k) # <<>>

\* the labelled lines the payload of a row is to consist of
ExpectedLines(row) ==
    << <<"A","S","S","L","Y",":"," ">> \o Str(CellOf(row, "ASSLY")),
       <<"P","a","r","t"," ","N","o",":"," ">> \o Str(CellOf(row, "part_no")),
       <<"D","e","s","c","r","i","p","t","i","o","n",":"," ">> \o Str(CellOf(row, "description")) >>
    \o (IF HasLine(row, "Part_per_veh")
        THEN << <<"Q","T","Y","/","B","I","N",":"," ">> \o CellOf(row, "Part_per_veh") >> ELSE <<>>)
    \o (IF HasLine(row, "Type") THEN << <<"T","y","p","e",":"," ">> \o CellOf(row, "Type") >> ELSE <<>>)
    \o (IF HasLine(row, "line_location")
        THEN << <<"L","i","n","e"," ","L","o","c","a","t","i","o","n",":"," ">> \o CellOf(row, "line_location") >> ELSE <<>>)
    \o << <<"D","a","t","e",":"," ">> \o today_date >>

(***************************************************************************)
(* C7.  The payload of every record is its labelled lines joined by        *)
(* newlines, in the order assembly, part number, description, quantity,    *)
(* type, line location (unsplit), date; the quantity, type and line        *)
(* location lines are there exactly when the column is resolved and the    *)
(* cell is neither null nor empty; the date line ends the payload.         *)
(***************************************************************************)
C7_PayloadLines ==
    \A i \in 1..Len(qr_calls) :
        /\ qr_calls[i].data = JoinLines(ExpectedLines(df_rows[i]))
        /\ ~qr_calls[i].raised => TablesOfRow(i)[2].data[1][3] = Image(qr_calls[i].data)

\* a payload was composed from a row whose quantity cell is null in a
\* resolved column and whose type cell is filled
C7_Witness ==
    \E i \in 1..Len(qr_calls) :
        /\ InFound(found_columns, "Part_per_veh")
        /\ CellOf(df_rows[i], "Part_per_veh") = NaN
        /\ HasLine(df_rows[i], "Type")
        /\ ~HasLine(df_rows[i], "line_location")

\* the tables of a sticker with the code cell blanked
BlankCode(tabs) == [tabs EXCEPT ![2].data[1][3] = PlainStr(<<>>)]

(***************************************************************************)
(* C8.  A failure to produce the code image of a record does not stop the  *)
(* generation: the record still gets its sticker, whose code cell is the   *)
(* textual placeholder, every cell other than that one is what it is       *)
(* without the failure, the other records keep their code images, and the  *)
(* document returned has one page per record.                              *)
(***************************************************************************)
C8_PlaceholderOnly ==
    /\ Len(qr_calls) = Len(df_rows)
    /\ Len(StickerTables) = 3 * Len(qr_calls)
    /\ \A i \in 1..Len(qr_calls) :
          /\ TablesOfRow(i)[2].data[1][3] =
                IF qr_calls[i].raised THEN Paragraph(<<"Q","R">>) ELSE Image(qr_calls[i].data)
          /\ BlankCode(TablesOfRow(i)) =
                BlankCode(sticker(columns, found_columns, df_rows[i], today_date, FALSE))
    /\ result.document =>
          /\ Len(result.pdf_bytes) = total_rows
          /\ \A i \in 1..Len(result.pdf_bytes) : result.pdf_bytes[i] = TablesOfRow(i)

\* a document of two pages is returned although the first record's code
\* image failed
C8_Witness ==
    /\ result.document
    /\ total_rows = 2
    /\ qr_calls[1].raised
    /\ ~qr_calls[2].raised
    /\ Len(result.pdf_bytes) = 2

(***************************************************************************)
(* C9.  generate_sticker_labels returns either a document of all the rows  *)
(* with the mapping, or (None, None).  Once a failure other than a code    *)
(* image's has occurred, no further row is composed and the next step      *)
(* returns (None, None); nothing is returned before the end.               *)
(***************************************************************************)
C9_AllOrNothing ==
    [][ /\ pc = "except" =>
              /\ pc' = "done"
              /\ IsNoneNone(result')
              /\ all_elements' = all_elements
              /\ df_rows' = df_rows
        /\ pc' = "done" =>
              \/ IsNoneNone(result')
              \/ /\ result'.document
                 /\ Len(df_rows') = total_rows'
                 /\ Len(result'.pdf_bytes) = total_rows'
                 /\ result'.found_columns = found_columns'
                 /\ \A i \in 1..total_rows' :
                       result'.pdf_bytes[i] =
                           sticker(columns', found_columns', df_rows'[i], today_date',
                                   qr_calls'[i].raised)
        /\ pc' # "done" => ~result'.returned
      ]_vars

\* (None, None) is returned after some rows, but not all, were composed
C9_Witness ==
    /\ pc = "done"
    /\ IsNoneNone(result)
    /\ reported = None
    /\ Len(df_rows) >= 1
    /\ Len(df_rows) < total_rows
    /\ all_elements # <<>>

\* the values extracted from a row for the six fields
Extracted(row) ==
    << RequiredText(columns, found_columns, row, "ASSLY"),
       RequiredText(columns, found_columns, row, "part_no"),
       RequiredText(columns, found_columns, row, "description"),
       OptionalText(columns, found_columns, row, "Part_per_veh"),
       OptionalText(columns, found_columns, row, "Type"),
       OptionalText(columns, found_columns, row, "line_location") >>

(***************************************************************************)
(* C10.  Round trip: the payload determines the values extracted from the  *)
(* row, so two records whose extracted values differ have different        *)
(* payloads for the same date.                                             *)
(***************************************************************************)
C10_PayloadDeterminesFields ==
    \A i, j \in 1..Len(qr_calls) :
        Extracted(df_rows[i]) # Extracted(df_rows[j]) =>
            qr_calls[i].data # qr_calls[j].data

\* the column of the first (alias, header) pair, aliases in list order and
\* for each alias the headers in column order, with one normalised name a
\* substring of the other
FirstPairColumn(k) ==
    LET i0 == Min(UNION {HitsOf(columns[j], k) : j \in 1..Len(columns)})
    IN  Min({j \in 1..Len(columns) : i0 \in HitsOf(columns[j], k)})

\* no header is an exact match for field k and some header is a substring match
SubstringStageDecides(k) ==
    /\ \A h \in ColumnSet : ~ExactFor(h, k)
    /\ \E h \in ColumnSet : SubstringFor(h, k)

(***************************************************************************)
(* C11.  As claimed: when no alias matches a header exactly, find_column   *)
(* returns the header of the first (alias, header) pair, aliases in list   *)
(* order and headers in column order, in which one normalised name is a    *)
(* substring of the other.                                                 *)
(***************************************************************************)
C11_FirstPairHeaderIsReturned ==
    pc = "check" =>
        \A k \in KeySet :
            SubstringStageDecides(k) => found_columns[k] = columns[FirstPairColumn(k)]

(***************************************************************************)
(* C11, amended.  When no alias matches a header exactly, find_column      *)
(* returns a header whose normalised form is that of the first (alias,     *)
(* header) pair, aliases in list order and headers in column order, in     *)
(* which one normalised name is a substring of the other; when several     *)
(* headers share that normalised form it is the last of them in column     *)
(* order.  When some alias matches exactly, the substring stage is not     *)
(* consulted: the header returned is an exact match.                       *)
(***************************************************************************)
C11_FirstPairDecides ==
    pc = "check" =>
        \A k \in KeySet :
            /\ SubstringStageDecides(k) =>
                  found_columns[k] =
                      LastHeaderWith(NormOf(columns[FirstPairColumn(k)]))
            /\ (\E h \in ColumnSet : ExactFor(h, k)) => ExactFor(found_columns[k], k)

\* the substring stage has decided a field whose first alias pairs with a
\* later column, while an earlier column pairs only with a later alias
C11_Witness ==
    /\ pc = "check"
    /\ \E k \in KeySet :
          /\ SubstringStageDecides(k)
          /\ FirstPairColumn(k) > 1
          /\ SubstringFor(columns[1], k)
          /\ found_columns[k] = columns[FirstPairColumn(k)]

\* the positions in all_elements of the tables, in order
TablePositions ==
    SelectSeq([i \in 1..Len(all_elements) |-> i],
              LAMBDA i : all_elements[i].kind = "Table")

\* the number of page breaks between the third region of the k-th row
\* processed and what follows it: the next row's first region, or the end
BreaksAfterRow(k) ==
    LET last == TablePositions[3 * k]
        nxt  == IF 3 * k < Len(TablePositions)
                THEN TablePositions[3 * k + 1]
                ELSE Len(all_elements) + 1
    IN  Cardinality({i \in (last + 1)..(nxt - 1) : all_elements[i].kind = "PageBreak"})

(***************************************************************************)
(* C12.  The flowables are the rows' regions in table row order, and the   *)
(* three regions of the k-th row, counted by position, are followed by     *)
(* exactly one page break when k < N and by none when k = N, N being the   *)
(* number of rows of the table.                                            *)
(***************************************************************************)
C12_BreakAfterEveryRowButTheLast ==
    /\ Len(StickerTables) = 3 * Len(df_rows)
    /\ \A k \in 1..Len(df_rows) :
          /\ TablesOfRow(k) = sticker(columns, found_columns, df_rows[k],
                                      today_date, qr_calls[k].raised)
          /\ BreaksAfterRow(k) = (IF k < total_rows THEN 1 ELSE 0)

(***************************************************************************)
(* C13.  Whenever generate_sticker_labels has returned, by any exit, no    *)
(* temporary file of the call is left on disk; and a temporary file exists *)
(* only once the required-column check has passed.                         *)
(***************************************************************************)
C13_NoTemporaryFileRemains ==
    /\ result.returned => tmp_files = {}
    /\ tmp_files # {} =>
          /\ pc \notin {"resolve", "check"}
          /\ missing_required(found_columns) = <<>>

=============================================================================
